---- MODULE Spec2Model ----
(***************************************************************************)
(* VibeStream Pro API (src/backend/main.py): the request handlers          *)
(* /analyze, /preview, /stream/{video_id}, /download and /download-video,  *)
(* the fallback cascade they run against yt-dlp, the YouTube Data API,     *)
(* Invidious, Piped and Cobalt, the ffmpeg post-processing of /download,   *)
(* the per-request temporary directory, the slowapi rate limiter and       *)
(* audio_url_cache.                                                        *)
(*                                                                         *)
(* One request is in flight at a time; pc is the handler's position and    *)
(* every call to an external service or process is one step whose outcome  *)
(* is chosen by the environment.                                           *)
(***************************************************************************)
EXTENDS Integers, Sequences, FiniteSets, TLC

----------------------------------------------------------------------------
(* Values *)

\* Python None for string-valued names (video_id, URLs, titles, error texts).
Null == "null"
\* str(None), as an f-string renders a missing video ID.
NoneStr == "None"
\* Python None and float('nan') for numeric names (start_time, end_time,
\* duration); every real number of the model is >= 0.
NoNum == 0 - 1
NaN == 0 - 2

IsNum(x) == x >= 0
\* a >= b and a > b on floats: every comparison with NaN is False.
Ge(a, b) == IsNum(a) /\ IsNum(b) /\ a >= b
Gt(a, b) == IsNum(a) /\ IsNum(b) /\ a > b
\* Truth value of an optional number (None and 0 are falsy, NaN is truthy).
Truthy(x) == x # NoNum /\ x # 0

----------------------------------------------------------------------------
(* Bounds of the model *)

\* Trim bounds offered by clients: None, NaN and 1..MaxTime seconds.
MaxTime == 3
\* The duration yt-dlp and the relays report for a video (or None).
Duration == 2
\* Requests the clients send in one run of SpecCache.
MaxCacheRequests == 2
\* Clock ticks in one run of SpecCache.
MaxTicks == 1
\* (client, endpoint) pairs with traffic in their window in one run of SpecRate.
MaxBusyCells == 2

----------------------------------------------------------------------------
(* Program constants *)

CACHE_EXPIRY == 300
AnalyzeLimit == 20
PreviewLimit == 30
DownloadLimit == 5
VideoLimit == 3
\* instances[:5] in the relay helpers
InstancesTried == 5
\* len(configs_to_try) in download_with_ytdlp_proxy
NumConfigs == 3

Endpoints == {"analyze", "preview", "stream", "download", "video"}
Limited == {"analyze", "preview", "download", "video"}
Clients == {"ip1", "ip2"}
Cells == Clients \X Limited

VideoIds == {"v1"}
\* The id yt-dlp reports for media that is not a YouTube video.
ForeignId == "x1"
CacheKeys == VideoIds \cup {ForeignId}

Modes == {"standard", "bass_boost", "nightcore", "minus_one"}
TimeVals == {NoNum, NaN} \cup (1..MaxTime)
Durations == {NoNum, Duration}

\* What the input text is: a search phrase, a YouTube URL with a video ID, a
\* YouTube URL without one, or a URL of another platform ("instagram" stands
\* for Instagram, Facebook and Twitter, which share one branch).
Kinds == {"search", "yt", "ytnoid", "tiktok", "spotify", "instagram", "other"}

VARIABLES
    pc,               \* position of the request in flight
    req,              \* its inputs
    loc,              \* the handler's local names
    log,              \* upstream services contacted for it, in order
    ffruns,           \* ffmpeg processes run for it, in order
    tmp,              \* its temporary directory: "none", "exists", "removed"
    resp,             \* its response
    hits,             \* limiter storage: hits in the current window, per cell
    admitted,         \* requests let through in the current window, per cell
    audio_url_cache,  \* video_id -> (url, content_type, timestamp)
    now,              \* time.time()
    ffmpeg,           \* ffmpeg_available()
    apiKey,           \* YOUTUBE_API_KEY is set
    nreq,             \* requests sent so far in this run
    call,             \* a call of a pure helper: its name, argument and result
    tasks             \* the event loop: who holds it, and the coroutines on it

vars == <<pc, req, loc, log, ffruns, tmp, resp, hits, admitted,
          audio_url_cache, now, ffmpeg, apiKey, nreq, call, tasks>>

\* What no step of a handler changes.
shared == <<hits, admitted, audio_url_cache, now, ffmpeg, apiKey, nreq, call,
            tasks>>

----------------------------------------------------------------------------
(* Records *)

NoInfo == [src |-> "none", title |-> Null, duration |-> NoNum, vid |-> Null,
           err |-> FALSE]
\* An info dict: who produced it, its title, its duration, the video ID its
\* webpage_url carries (NoneStr: a watch URL built from a missing ID; Null: not
\* a YouTube watch URL), and whether it is a relay's error answer.
Info(src, title, dur, vid, err) ==
    [src |-> src, title |-> title, duration |-> dur, vid |-> vid, err |-> err]

NoUrl == [src |-> "none", at |-> NoNum]
\* A direct media URL, as resolved by src at time t.
Url(src, t) == [src |-> src, at |-> t]

NoEntry == [url |-> NoUrl, ctype |-> "", ts |-> NoNum]
Entry(url, ctype, ts) == [url |-> url, ctype |-> ctype, ts |-> ts]

\* One contact of an upstream source: which source, what for (metadata of a
\* URL, a search, the audio), and with which alternative configuration.
Contact(src, what, n) == [src |-> src, what |-> what, n |-> n]

\* One ffmpeg process: the step that ran it, its exit status (1: any failure
\* to exit zero), the file it read and the trim bounds it was given.
Run(what, rc, input, st, et) ==
    [what |-> what, rc |-> rc, input |-> input, st |-> st, et |-> et]

NoFile == [base |-> "none", effect |-> "none"]
NoTrim == [on |-> FALSE, st |-> NoNum, et |-> NoNum]

NoInput == [kind |-> "other", vid |-> Null, mode |-> "standard",
            st |-> NoNum, et |-> NoNum]
NoReq == [ep |-> "none", ip |-> "none", in |-> NoInput]

\* No coroutine on the event loop.
NoTasks == [loop |-> 0, of |-> << >>]

\* No helper call under test.
NoCall == [fn |-> "none", arg |-> << >>, out |-> << >>, returned |-> FALSE]

LocInit ==
    [is_search |-> FALSE, video_id |-> Null, info |-> NoInfo,
     yt_dlp_error |-> Null, use_fallback |-> FALSE, dl_error |-> Null,
     download_success |-> FALSE, mp3 |-> FALSE, in_fallback2 |-> FALSE,
     relay_done |-> FALSE, fallback_audio_url |-> NoUrl, audio_url |-> NoUrl,
     content_type |-> "audio/mp4", source |-> "unknown", lookup |-> "none",
     age |-> NoNum, start_time |-> NoNum, end_time |-> NoNum,
     current_mp3 |-> "none", final_path |-> NoFile, tagged |-> FALSE]

NoResp == [status |-> 0, body |-> "none", detail |-> "", embeds |-> FALSE,
           src |-> "none", watch |-> Null,
           file |-> NoFile, suffix |-> "", trimsfx |-> NoTrim, url |-> NoUrl,
           from_cache |-> FALSE, sent |-> "none"]

\* raise HTTPException(status_code, detail); embeds: the detail carries the
\* upstream error text.
Error(status, detail, embeds) ==
    [NoResp EXCEPT !.status = status, !.body = "error", !.detail = detail,
                   !.embeds = embeds]

\* An exception no handler catches: the framework answers 500.
Unhandled == Error(500, "Internal Server Error", FALSE)

----------------------------------------------------------------------------
(* Inputs *)

NoneOrIds(kind) == IF kind = "yt" THEN VideoIds ELSE {Null}

\* download_audio, download_video and get_audio_preview never look at the
\* platform of a URL that is not YouTube's.
UrlKinds(ep) == IF ep = "analyze" THEN Kinds ELSE {"search", "yt", "ytnoid", "other"}

UrlInputs(ep) ==
    UNION {{[NoInput EXCEPT !.kind = k, !.vid = v] : v \in NoneOrIds(k)} : k \in UrlKinds(ep)}

\* The trim bounds of a request: both, or at most one of them.
TrimInputs ==
    {p \in TimeVals \X TimeVals :
        (p[1] = NoNum \/ p[2] = NoNum) => (p[1] \in {NoNum, 1} /\ p[2] \in {NoNum, 1})}

InputsOf(ep) ==
    CASE ep = "download" ->
           {[i EXCEPT !.mode = m, !.st = p[1], !.et = p[2]] :
              i \in UrlInputs(ep), m \in Modes, p \in TrimInputs}
      [] ep = "stream" ->
           {[NoInput EXCEPT !.kind = "yt", !.vid = v] : v \in CacheKeys}
      [] OTHER -> UrlInputs(ep)

\* is_url (line 240) on the classified input.
is_url(kind) == kind # "search"

\* extract_video_id (line 269) on the classified input.
extract_video_id(in) == IF in.kind = "yt" THEN in.vid ELSE Null

\* detect_platform (line 246) on the classified input.
detect_platform(kind) ==
    CASE kind \in {"yt", "ytnoid"} -> "youtube"
      [] kind = "tiktok" -> "tiktok"
      [] kind = "spotify" -> "spotify"
      [] kind = "instagram" -> "instagram"
      [] OTHER -> "other"

\* The video ID in the webpage_url of what yt-dlp extracted for the input.
InfoVid(in) ==
    CASE in.kind = "yt" -> in.vid
      [] in.kind \in {"search", "ytnoid"} -> "v1"
      [] OTHER -> Null

\* info.get("id") of what yt-dlp extracted for the input.
InfoId(in) == IF InfoVid(in) # Null THEN InfoVid(in) ELSE ForeignId

----------------------------------------------------------------------------
(* Rate limiter (slowapi): limiter.limit on each route *)

LimitOf(ep) ==
    CASE ep = "analyze" -> AnalyzeLimit
      [] ep = "preview" -> PreviewLimit
      [] ep = "download" -> DownloadLimit
      [] ep = "video" -> VideoLimit

\* A variant of LimitKey with one counter per client for all routes.
LimitKeyShared(ip, ep) == <<ip, "analyze">>

\* The key a hit is counted under: key_func=get_remote_address, per route.
LimitKey(ip, ep) == <<ip, ep>>

\* A variant of WithinLimit that lets one more hit through.
WithinLimitPlusOne(count, ep) == count <= LimitOf(ep) + 1

\* The limiter's test of a hit: the window's count, this hit included, is
\* within the route's limit.
WithinLimit(count, ep) == count <= LimitOf(ep)

----------------------------------------------------------------------------
(* audio_url_cache *)

\* A variant of Expired that already expires an entry of age CACHE_EXPIRY.
ExpiredAtLimit(t, cached_time) == t - cached_time >= CACHE_EXPIRY

\* time.time() - cached_time > CACHE_EXPIRY
Expired(t, cached_time) == t - cached_time > CACHE_EXPIRY

\* The start of stream_audio: the cache lookup, the deletion of an expired
\* entry, and the answer from a live entry.
StreamLookup(vid) ==
    LET cached == audio_url_cache[vid]
        hit == cached # NoEntry
        expired == hit /\ Expired(now, cached.ts)
        audio_url == IF hit /\ ~expired THEN cached.url ELSE NoUrl
        content_type == IF hit THEN cached.ctype ELSE "audio/mp4"
        l == [LocInit EXCEPT !.video_id = vid, !.audio_url = audio_url,
                             !.content_type = content_type,
                             !.age = IF hit THEN now - cached.ts ELSE NoNum]
    IN  /\ audio_url_cache' =
              IF expired THEN [audio_url_cache EXCEPT ![vid] = NoEntry]
              ELSE audio_url_cache
        /\ IF audio_url # NoUrl
           THEN /\ loc' = [l EXCEPT !.lookup = "live"]
                /\ resp' = [NoResp EXCEPT !.status = 200, !.body = "audio",
                                          !.url = audio_url, !.from_cache = TRUE]
                /\ pc' = "done"
           ELSE /\ loc' = [l EXCEPT !.lookup = IF expired THEN "expired" ELSE "miss"]
                /\ resp' = NoResp
                /\ pc' = "extract"

----------------------------------------------------------------------------
(* Arrival of a request: the limiter, then the top of the handler *)

\* A variant of Enter in which /download consults audio_url_cache first, as
\* /stream does.
EnterCached(ep, in) ==
    CASE ep = "stream" \/ (ep = "download" /\ ffmpeg /\ in.vid \in CacheKeys) ->
           StreamLookup(in.vid)
      [] ep \in {"download", "video"} /\ ~ffmpeg ->
           /\ resp' = Error(500, "ffmpeg not found. Server configuration error.", FALSE)
           /\ loc' = LocInit
           /\ pc' = "done"
           /\ UNCHANGED audio_url_cache
      [] OTHER ->
           /\ loc' = [LocInit EXCEPT !.is_search = ~is_url(in.kind),
                                     !.video_id = IF is_url(in.kind)
                                                  THEN extract_video_id(in) ELSE Null,
                                     !.start_time = in.st, !.end_time = in.et]
           /\ resp' = NoResp
           /\ pc' = "extract"
           /\ UNCHANGED audio_url_cache

\* A variant of Enter without the ffmpeg_available() test at the top of
\* download_audio and download_video.
EnterUnchecked(ep, in) ==
    CASE ep = "stream" -> StreamLookup(in.vid)
      [] OTHER ->
           /\ loc' = [LocInit EXCEPT !.is_search = ~is_url(in.kind),
                                     !.video_id = IF is_url(in.kind)
                                                  THEN extract_video_id(in) ELSE Null,
                                     !.start_time = in.st, !.end_time = in.et]
           /\ resp' = NoResp
           /\ pc' = "extract"
           /\ UNCHANGED audio_url_cache

\* The handler body up to its first external call.
Enter(ep, in) ==
    CASE ep = "stream" -> StreamLookup(in.vid)
      [] ep \in {"download", "video"} /\ ~ffmpeg ->
           /\ resp' = Error(500, "ffmpeg not found. Server configuration error.", FALSE)
           /\ loc' = LocInit
           /\ pc' = "done"
           /\ UNCHANGED audio_url_cache
      [] OTHER ->
           /\ loc' = [LocInit EXCEPT !.is_search = ~is_url(in.kind),
                                     !.video_id = IF is_url(in.kind)
                                                  THEN extract_video_id(in) ELSE Null,
                                     !.start_time = in.st, !.end_time = in.et]
           /\ resp' = NoResp
           /\ pc' = "extract"
           /\ UNCHANGED audio_url_cache

Arrive(ip, ep, in) ==
    /\ pc \in {"idle", "done"}
    /\ req' = [ep |-> ep, ip |-> ip, in |-> in]
    /\ log' = << >>
    /\ ffruns' = << >>
    /\ tmp' = "none"
    /\ UNCHANGED <<now, ffmpeg, apiKey, call, tasks>>
    /\ IF ep \in Limited
       THEN LET key == LimitKey(ip, ep)
                count == hits[key] + 1
            IN  /\ hits' = [hits EXCEPT ![key] = count]
                /\ IF WithinLimit(count, ep)
                   THEN /\ admitted' = [admitted EXCEPT ![key] = @ + 1]
                        /\ Enter(ep, in)
                   ELSE /\ resp' = Error(429, "Rate limit exceeded", FALSE)
                        /\ loc' = LocInit
                        /\ pc' = "done"
                        /\ UNCHANGED <<admitted, audio_url_cache>>
       ELSE /\ Enter(ep, in)
            /\ UNCHANGED <<hits, admitted>>

\* The limiter's storage drops the count of a key when its window is over.
WindowExpire(key) ==
    /\ hits[key] > 0
    /\ hits' = [hits EXCEPT ![key] = 0]
    /\ admitted' = [admitted EXCEPT ![key] = 0]
    /\ UNCHANGED <<pc, req, loc, log, ffruns, tmp, resp, audio_url_cache, now,
                   ffmpeg, apiKey, nreq, call, tasks>>

----------------------------------------------------------------------------
(* Upstream answers *)

\* ydl.extract_info: it raises (the error text carrying a bot-detection or
\* auth-expiry signature, or not), it yields nothing, or it yields an info dict
\* (with a duration or without, with a direct audio URL or without).
YdlRaise(sig) == [r |-> "raise", sig |-> sig, dur |-> NoNum, audio |-> "none"]
YdlNone == [r |-> "none", sig |-> Null, dur |-> NoNum, audio |-> "none"]
YdlOk(dur, audio) == [r |-> "ok", sig |-> Null, dur |-> dur, audio |-> audio]
ErrorTexts == {"bot", "other"}

ExtractOutcomes(ep) ==
    {YdlRaise(s) : s \in ErrorTexts} \cup {YdlNone} \cup
    CASE ep = "preview" -> {YdlOk(Duration, a) : a \in {"m4a", "none"}}
      [] ep = "stream" -> {YdlOk(Duration, a) : a \in {"m4a", "webm", "none"}}
      [] OTHER -> {YdlOk(d, "none") : d \in Durations}

\* A search (YouTube Data API, Invidious, Piped): no usable answer, or a first
\* result with its video ID (possibly missing) and title (possibly missing).
Miss == [hit |-> FALSE, vid |-> Null, title |-> Null, dur |-> NoNum]
Hit(vid, title, dur) == [hit |-> TRUE, vid |-> vid, title |-> title, dur |-> dur]
ApiSearchOutcomes == {Miss, Hit("v1", "T", NoNum), Hit(Null, "T", NoNum), Hit("v1", Null, NoNum)}
ApiInfoOutcomes == {Miss, Hit(Null, "T", Duration)}
InvSearchOutcomes == {Miss, Hit("v1", "T", Duration), Hit(Null, "T", Duration)}
PipedSearchOutcomes == {Miss, Hit("v1", "T", Duration), Hit(Null, "T", Duration),
                        Hit("v1", Null, Duration)}

\* What one relay instance answers: no HTTP 200 (or an exception), HTTP 200
\* with an 'error' field, HTTP 200 with the video's data.
Answers == {"fail", "error", "ok"}
AnswerSeqs == [1..InstancesTried -> Answers]
\* The answer sequences the specifications draw from: any first answer, any
\* second answer, and the later instances answering as the second did.
RelayScenarios ==
    {ans \in AnswerSeqs : \A i \in 2..InstancesTried : ans[i] = ans[2]}

\* get_invidious_video_info: the data of the first instance that answers 200
\* without an 'error' field.
get_invidious_video_info(ans) ==
    IF \E i \in 1..InstancesTried : ans[i] = "ok" THEN "ok" ELSE "none"

\* get_piped_video_info: the data of the first instance that answers 200; the
\* return is outside the test of 'error'.
get_piped_video_info(ans) ==
    IF \E i \in 1..InstancesTried : ans[i] # "fail"
    THEN ans[CHOOSE i \in 1..InstancesTried :
                 ans[i] # "fail" /\ \A j \in 1..(i - 1) : ans[j] = "fail"]
    ELSE "none"

\* f"https://www.youtube.com/watch?v={video_id}"
WatchId(video_id) == IF video_id = Null THEN NoneStr ELSE video_id

----------------------------------------------------------------------------
(* /analyze: the response *)

\* A variant of AnalyzeError whose TikTok message leaves the yt-dlp error out.
AnalyzeErrorTerse(in, is_search, yt_dlp_error) ==
    LET platform == IF is_search THEN "search" ELSE detect_platform(in.kind)
        failed == yt_dlp_error # Null
    IN  CASE platform = "youtube" ->
               IF failed THEN Error(400, "Could not analyze YouTube video. yt-dlp:", TRUE)
               ELSE Error(400, "No results found", FALSE)
          [] platform = "tiktok" -> Error(400, "TikTok extraction failed.", FALSE)
          [] platform = "spotify" -> Error(400, "Spotify is not supported.", FALSE)
          [] platform = "instagram" -> Error(400, "extraction failed.", failed)
          [] OTHER ->
               IF failed THEN Error(400, "Could not analyze. yt-dlp:", TRUE)
               ELSE Error(400, "No results found", FALSE)

\* Lines 1524-1538: the 400 of analyze_video.
AnalyzeError(in, is_search, yt_dlp_error) ==
    LET platform == IF is_search THEN "search" ELSE detect_platform(in.kind)
        failed == yt_dlp_error # Null
    IN  CASE platform = "youtube" ->
               IF failed THEN Error(400, "Could not analyze YouTube video. yt-dlp:", TRUE)
               ELSE Error(400, "No results found", FALSE)
          [] platform = "tiktok" -> Error(400, "TikTok extraction failed.", failed)
          [] platform = "spotify" -> Error(400, "Spotify is not supported.", FALSE)
          [] platform = "instagram" -> Error(400, "extraction failed.", failed)
          [] OTHER ->
               IF failed THEN Error(400, "Could not analyze. yt-dlp:", TRUE)
               ELSE Error(400, "No results found", FALSE)

\* Lines 1524-1551: HTTP 400 without info, else the VideoInfo record (whose
\* title must be a string).
AnalyzeResponse(in, l) ==
    IF l.info = NoInfo THEN AnalyzeError(in, l.is_search, l.yt_dlp_error)
    ELSE IF l.info.title = Null THEN Unhandled
    ELSE [NoResp EXCEPT !.status = 200, !.body = "record", !.detail = l.info.title,
                        !.src = l.info.src, !.watch = l.info.vid]

NoResults == Error(400, "No results found", FALSE)

----------------------------------------------------------------------------
(* Metadata: yt-dlp, then the YouTube Data API, then the relays *)

\* with yt_dlp.YoutubeDL(...) as ydl: info = ydl.extract_info(...), at the top
\* of analyze_video, get_audio_preview, stream_audio, download_audio and
\* download_video.
ExtractInfo(o) ==
    /\ pc = "extract"
    /\ o \in ExtractOutcomes(req.ep)
    /\ log' = Append(log, Contact("yt-dlp", "info", 0))
    /\ LET ep == req.ep
           in == req.in
           ok == o.r = "ok"
           l == [loc EXCEPT
                   !.info = IF ok THEN Info("ytdlp", "T", o.dur, InfoVid(in), FALSE)
                            ELSE NoInfo,
                   !.yt_dlp_error = IF o.r = "raise" THEN o.sig ELSE Null,
                   !.use_fallback = (ep = "download" /\ o.r = "raise")]
           found == ok /\ o.audio # "none"
       IN  CASE ep = "analyze" ->
                  /\ loc' = l
                  /\ IF ok THEN resp' = AnalyzeResponse(in, l) /\ pc' = "done"
                     ELSE resp' = resp /\ pc' = "api"
             [] ep \in {"download", "video"} ->
                  /\ loc' = l
                  /\ resp' = resp
                  /\ pc' = IF ok THEN "prepare" ELSE "api"
             [] ep = "preview" ->
                  /\ loc' = [l EXCEPT
                               !.video_id = IF ok THEN InfoId(in) ELSE @,
                               !.audio_url = IF found THEN Url("yt-dlp", now) ELSE NoUrl,
                               !.source = IF found THEN "yt-dlp" ELSE @]
                  /\ resp' = resp
                  /\ pc' = "inv_audio"
             [] ep = "stream" ->
                  /\ loc' = [l EXCEPT
                               !.audio_url = IF found THEN Url("yt-dlp", now) ELSE NoUrl,
                               !.content_type = IF ~found THEN @
                                                ELSE IF o.audio = "webm" THEN "audio/webm"
                                                ELSE "audio/mp4",
                               !.source = IF found THEN "yt-dlp" ELSE @]
                  /\ resp' = resp
                  /\ pc' = "inv_audio"
    /\ UNCHANGED <<req, ffruns, tmp, shared>>

\* search_youtube_api / get_youtube_api_video_info: without a key neither
\* contacts the API. Then, in download_audio only, the minimal info of a URL
\* whose video ID is known.
ApiStep(o) ==
    /\ pc = "api"
    /\ o \in IF loc.is_search THEN ApiSearchOutcomes ELSE ApiInfoOutcomes
    /\ LET ep == req.ep
           search == loc.is_search
           byId == ~search /\ loc.video_id # Null
           contact == (search \/ byId) /\ apiKey
           out == IF contact THEN o ELSE Miss
           video_id == IF search /\ out.hit THEN out.vid ELSE loc.video_id
           info == IF out.hit
                   THEN IF search
                        THEN Info("api", out.title, NoNum, WatchId(video_id), FALSE)
                        ELSE Info("api", "T", out.dur, WatchId(video_id), FALSE)
                   ELSE IF ep = "download" /\ byId
                        THEN Info("minimal", "audio", NoNum, WatchId(video_id), FALSE)
                        ELSE NoInfo
           l == [loc EXCEPT !.info = info, !.video_id = video_id]
       IN  /\ log' = IF contact
                     THEN Append(log, Contact("api", IF search THEN "search" ELSE "info", 0))
                     ELSE log
           /\ loc' = l
           /\ CASE ep = "analyze" ->
                     IF info # NoInfo THEN resp' = AnalyzeResponse(req.in, l) /\ pc' = "done"
                     ELSE IF search THEN resp' = resp /\ pc' = "inv_search"
                     ELSE IF byId THEN resp' = resp /\ pc' = "inv_info"
                     ELSE resp' = AnalyzeResponse(req.in, l) /\ pc' = "done"
                [] ep = "download" ->
                     IF info # NoInfo THEN resp' = resp /\ pc' = "prepare"
                     ELSE IF search THEN resp' = resp /\ pc' = "inv_search"
                     ELSE resp' = NoResults /\ pc' = "done"
                [] ep = "video" ->
                     IF info # NoInfo THEN resp' = resp /\ pc' = "prepare"
                     ELSE resp' = NoResults /\ pc' = "done"
    /\ UNCHANGED <<req, ffruns, tmp, shared>>

\* The info analyze_video and download_audio build from a relay search result.
SearchInfo(src, out) == Info(src, out.title, out.dur, WatchId(out.vid), FALSE)

\* search_invidious, in analyze_video and download_audio.
InvSearch(o) ==
    /\ pc = "inv_search"
    /\ o \in InvSearchOutcomes
    /\ log' = Append(log, Contact("invidious", "search", 0))
    /\ IF o.hit
       THEN LET l == [loc EXCEPT !.info = SearchInfo("invidious", o), !.video_id = o.vid]
            IN  /\ loc' = l
                /\ IF req.ep = "analyze"
                   THEN resp' = AnalyzeResponse(req.in, l) /\ pc' = "done"
                   ELSE resp' = resp /\ pc' = "prepare"
       ELSE /\ pc' = "piped_search"
            /\ UNCHANGED <<loc, resp>>
    /\ UNCHANGED <<req, ffruns, tmp, shared>>

\* search_piped, tried when search_invidious found nothing.
PipedSearch(o) ==
    /\ pc = "piped_search"
    /\ o \in PipedSearchOutcomes
    /\ log' = Append(log, Contact("piped", "search", 0))
    /\ LET l == IF o.hit
                THEN [loc EXCEPT !.info = SearchInfo("piped", o), !.video_id = o.vid]
                ELSE loc
       IN  /\ loc' = l
           /\ IF req.ep = "analyze"
              THEN resp' = AnalyzeResponse(req.in, l) /\ pc' = "done"
              ELSE IF o.hit THEN resp' = resp /\ pc' = "prepare"
              ELSE resp' = NoResults /\ pc' = "done"
    /\ UNCHANGED <<req, ffruns, tmp, shared>>

\* get_invidious_video_info in analyze_video.
InvInfo(ans) ==
    /\ pc = "inv_info"
    /\ ans \in AnswerSeqs
    /\ log' = Append(log, Contact("invidious", "info", 0))
    /\ IF get_invidious_video_info(ans) = "ok"
       THEN LET l == [loc EXCEPT !.info = Info("invidious", "T", Duration,
                                               WatchId(loc.video_id), FALSE)]
            IN  loc' = l /\ resp' = AnalyzeResponse(req.in, l) /\ pc' = "done"
       ELSE pc' = "piped_info" /\ UNCHANGED <<loc, resp>>
    /\ UNCHANGED <<req, ffruns, tmp, shared>>

\* get_piped_video_info in analyze_video: any dict it returns becomes the
\* info; an error answer has neither title nor duration.
PipedInfo(ans) ==
    /\ pc = "piped_info"
    /\ ans \in AnswerSeqs
    /\ log' = Append(log, Contact("piped", "info", 0))
    /\ LET data == get_piped_video_info(ans)
           info == CASE data = "ok" ->
                          Info("piped", "T", Duration, WatchId(loc.video_id), FALSE)
                     [] data = "error" ->
                          Info("piped", "Unknown", NoNum, WatchId(loc.video_id), TRUE)
                     [] OTHER -> NoInfo
           l == [loc EXCEPT !.info = info]
       IN  loc' = l /\ resp' = AnalyzeResponse(req.in, l) /\ pc' = "done"
    /\ UNCHANGED <<req, ffruns, tmp, shared>>

----------------------------------------------------------------------------
(* /download and /download-video: the temporary directory and the download *)

\* A variant of TrimRejected that lets start_time = end_time through.
TrimRejectedStrict(start_time, end_time) == Gt(start_time, end_time)

\* if start_time >= end_time: raise HTTPException(400)
TrimRejected(start_time, end_time) == Ge(start_time, end_time)

\* if video_duration and end_time > video_duration: end_time = video_duration
ClampEnd(end_time, video_duration) ==
    IF Truthy(video_duration) /\ Gt(end_time, video_duration)
    THEN video_duration ELSE end_time

\* start_time is not None and end_time is not None
TrimAsked(start_time, end_time) == start_time # NoNum /\ end_time # NoNum

\* shutil.rmtree(tmp_dir, ignore_errors=True) of a directory that exists.
Removed == "removed"

\* From the info to the download: sanitize_filename on the title (a title that
\* is None raises), the trim validation of download_audio, tempfile.mkdtemp().
Prepare ==
    /\ pc = "prepare"
    /\ LET st == loc.start_time
           et == loc.end_time
           asked == req.ep = "download" /\ TrimAsked(st, et)
       IN  IF loc.info.title = Null
           THEN resp' = Unhandled /\ pc' = "done" /\ UNCHANGED <<loc, tmp>>
           ELSE IF asked /\ TrimRejected(st, et)
           THEN /\ resp' = Error(400, "start_time must be less than end_time", FALSE)
                /\ pc' = "done"
                /\ UNCHANGED <<loc, tmp>>
           ELSE /\ loc' = [loc EXCEPT !.end_time =
                             IF asked THEN ClampEnd(et, loc.info.duration) ELSE @]
                /\ tmp' = "exists"
                /\ resp' = resp
                /\ pc' = "primary"
    /\ UNCHANGED <<req, log, ffruns, shared>>

\* ydl.download([actual_url]): it leaves the file, it returns without the
\* file, or it raises.
DlOk == [r |-> "ok", sig |-> Null]
DlNoFile == [r |-> "nofile", sig |-> Null]
DlRaise(sig) == [r |-> "raise", sig |-> sig]
DownloadOutcomes == {DlOk, DlNoFile} \cup {DlRaise(s) : s \in ErrorTexts}

\* extract_video_id(actual_url) on the info's webpage_url.
UrlVideoId(info) == IF info.vid = NoneStr THEN Null ELSE info.vid

\* The primary yt-dlp download: download_audio makes it unless the extraction
\* raised; download_video always makes it and ends on its failure.
PrimaryDownload(o) ==
    /\ pc = "primary"
    /\ o \in DownloadOutcomes
    /\ IF req.ep = "video"
       THEN /\ log' = Append(log, Contact("yt-dlp", "download", 0))
            /\ loc' = [loc EXCEPT !.download_success = (o.r # "raise"),
                                  !.dl_error = o.sig,
                                  !.final_path = IF o.r = "ok"
                                                 THEN [base |-> "video", effect |-> "none"]
                                                 ELSE @]
            /\ CASE o.r = "ok" ->
                      /\ resp' = [NoResp EXCEPT !.status = 200, !.body = "file",
                                     !.file = [base |-> "video", effect |-> "none"]]
                      /\ pc' = "streaming"
                      /\ tmp' = tmp
                 [] o.r = "nofile" ->
                      /\ resp' = Error(500, "Video download failed - no video file found.", FALSE)
                      /\ pc' = "done"
                      /\ tmp' = Removed
                 [] OTHER ->
                      /\ resp' = Error(500, "Video download failed.", FALSE)
                      /\ pc' = "done"
                      /\ tmp' = Removed
       ELSE /\ IF loc.use_fallback
               THEN UNCHANGED <<log, loc>>
               ELSE /\ log' = Append(log, Contact("yt-dlp", "download", 0))
                    /\ loc' = [loc EXCEPT
                                 !.download_success = (o.r # "raise"),
                                 !.mp3 = (o.r = "ok"),
                                 !.dl_error = o.sig,
                                 !.video_id = IF o.r = "raise" /\ @ = Null
                                              THEN UrlVideoId(loc.info) ELSE @]
            /\ pc' = "alt"
            /\ UNCHANGED <<resp, tmp>>
    /\ UNCHANGED <<req, ffruns, shared>>

\* A variant of NeedsFallback that also looks for a bot-detection signature in
\* the error text, which the handler never does.
NeedsFallbackOnSignature(l) ==
    /\ ~l.download_success
    /\ l.video_id # Null
    /\ (l.yt_dlp_error = "bot" \/ l.dl_error = "bot")

\* if not download_success and video_id: the guard of both fallback blocks.
NeedsFallback(l) == ~l.download_success /\ l.video_id # Null

\* A variant of AltContacts that retries the first configuration.
AltContactsSame(k) ==
    [i \in 1..(IF k = 0 THEN NumConfigs ELSE k) |-> Contact("yt-dlp", "alt", 1)]

\* The contacts of download_with_ytdlp_proxy when configuration k is the first
\* to leave an MP3 (k = 0: none does).
AltContacts(k) ==
    [i \in 1..(IF k = 0 THEN NumConfigs ELSE k) |-> Contact("yt-dlp", "alt", i)]

\* Fallback 1: download_with_ytdlp_proxy.
AltConfigs(k) ==
    /\ pc = "alt"
    /\ k \in 0..NumConfigs
    /\ IF NeedsFallback(loc)
       THEN /\ log' = log \o AltContacts(k)
            /\ loc' = [loc EXCEPT !.download_success = (k > 0), !.mp3 = (k > 0)]
       ELSE UNCHANGED <<log, loc>>
    /\ pc' = "cobalt"
    /\ UNCHANGED <<req, ffruns, tmp, resp, shared>>

\* Fallback 2 starts with get_cobalt_audio.
Cobalt(ok) ==
    /\ pc = "cobalt"
    /\ ok \in BOOLEAN
    /\ IF NeedsFallback(loc)
       THEN /\ log' = Append(log, Contact("cobalt", "audio", 0))
            /\ loc' = [loc EXCEPT !.in_fallback2 = TRUE,
                                  !.relay_done = ok,
                                  !.fallback_audio_url =
                                      IF ok THEN Url("cobalt", now) ELSE NoUrl]
       ELSE UNCHANGED <<log, loc>>
    /\ pc' = "inv_audio"
    /\ UNCHANGED <<req, ffruns, tmp, resp, shared>>

----------------------------------------------------------------------------
(* The relays as audio sources: /download, /preview and /stream *)

\* What the relay's data holds for audio: no audio format, a best format with
\* its URL, a best format without a URL, or fields of a type the helper's
\* filter and sort (which no try block covers) cannot handle.
Formats == {"none", "url", "nourl", "malformed"}

\* get_audio_url_from_invidious / get_audio_url_from_piped on the data of
\* get_*_video_info: None, the tuple (url, meta), or an exception.
AudioResult(data, fmt) ==
    CASE data # "ok" -> "none"
      [] fmt = "none" -> "none"
      [] fmt = "malformed" -> "raise"
      [] OTHER -> fmt

\* A variant of AsksRelay in which download_audio asks the relays whatever
\* Cobalt returned.
AsksRelayAlways(ep, l) ==
    IF ep = "download" THEN l.in_fallback2
    ELSE l.audio_url = NoUrl /\ l.video_id # Null

\* Whether a relay is asked for the audio URL: in download_audio inside
\* Fallback 2 while no earlier source returned a result; in get_audio_preview
\* and stream_audio while audio_url is empty (and video_id known).
AsksRelay(ep, l) ==
    IF ep = "download" THEN l.in_fallback2 /\ ~l.relay_done
    ELSE l.audio_url = NoUrl /\ l.video_id # Null

\* The locals after a relay returned res ("none", "url", "nourl").
WithRelay(ep, l, src, res) ==
    LET url == IF res = "url" THEN Url(src, now) ELSE NoUrl
    IN  IF res = "none" THEN l
        ELSE IF ep = "download"
        THEN [l EXCEPT !.relay_done = TRUE, !.fallback_audio_url = url]
        ELSE [l EXCEPT !.audio_url = url, !.source = src,
                       !.content_type = IF ep = "stream" THEN "audio/mp4" ELSE @]

\* What a relay may answer to the request in flight: nothing is drawn for a
\* relay that is not asked.
NoAnswer == [i \in 1..InstancesTried |-> "fail"]
RelayAnswers(ep, l) ==
    IF AsksRelay(ep, l) THEN RelayScenarios \X Formats ELSE {<<NoAnswer, "none">>}

InvAudio(ans, fmt) ==
    /\ pc = "inv_audio"
    /\ ans \in AnswerSeqs
    /\ fmt \in Formats
    /\ IF AsksRelay(req.ep, loc)
       THEN LET res == AudioResult(get_invidious_video_info(ans), fmt)
            IN  /\ log' = Append(log, Contact("invidious", "audio", 0))
                /\ IF res = "raise"
                   THEN resp' = Unhandled /\ pc' = "done" /\ loc' = loc
                   ELSE /\ loc' = WithRelay(req.ep, loc, "invidious", res)
                        /\ resp' = resp
                        /\ pc' = "piped_audio"
       ELSE pc' = "piped_audio" /\ UNCHANGED <<log, loc, resp>>
    /\ UNCHANGED <<req, ffruns, tmp, shared>>

\* A variant of PreviewEnd that answers with the proxy URL without storing
\* the audio URL.
PreviewEndUncached(l) ==
    IF l.audio_url = NoUrl \/ l.video_id = Null
    THEN /\ resp' = Error(400, "Could not get audio stream for preview.", FALSE)
         /\ UNCHANGED audio_url_cache
    ELSE /\ UNCHANGED audio_url_cache
         /\ resp' = [NoResp EXCEPT !.status = 200, !.body = "preview",
                                   !.src = l.source, !.watch = l.video_id]

\* The end of get_audio_preview: HTTP 400 without an audio URL or a video ID,
\* else the cache entry and the proxy URL.
PreviewEnd(l) ==
    IF l.audio_url = NoUrl \/ l.video_id = Null
    THEN /\ resp' = Error(400, "Could not get audio stream for preview.", FALSE)
         /\ UNCHANGED audio_url_cache
    ELSE /\ audio_url_cache' = [audio_url_cache EXCEPT ![l.video_id] =
                                   Entry(l.audio_url, "audio/mp4", now)]
         /\ resp' = [NoResp EXCEPT !.status = 200, !.body = "preview",
                                   !.src = l.source, !.watch = l.video_id]

\* The end of stream_audio's resolution: HTTP 404 without an audio URL, else
\* the cache entry and the proxied stream.
StreamEnd(l) ==
    IF l.audio_url = NoUrl
    THEN /\ resp' = Error(404, "Audio stream not found", FALSE)
         /\ UNCHANGED audio_url_cache
    ELSE /\ audio_url_cache' = [audio_url_cache EXCEPT ![l.video_id] =
                                   Entry(l.audio_url, l.content_type, now)]
         /\ resp' = [NoResp EXCEPT !.status = 200, !.body = "audio",
                                   !.url = l.audio_url, !.src = l.source]

PipedAudio(ans, fmt) ==
    /\ pc = "piped_audio"
    /\ ans \in AnswerSeqs
    /\ fmt \in Formats
    /\ LET asks == AsksRelay(req.ep, loc)
           res == IF asks THEN AudioResult(get_piped_video_info(ans), fmt) ELSE "none"
           l == WithRelay(req.ep, loc, "piped", res)
       IN  /\ log' = IF asks THEN Append(log, Contact("piped", "audio", 0)) ELSE log
           /\ IF res = "raise"
              THEN /\ resp' = Unhandled /\ pc' = "done" /\ loc' = loc
                   /\ UNCHANGED audio_url_cache
              ELSE /\ loc' = l
                   /\ CASE req.ep = "download" ->
                             pc' = "fetch" /\ UNCHANGED <<resp, audio_url_cache>>
                        [] req.ep = "preview" -> pc' = "done" /\ PreviewEnd(l)
                        [] OTHER -> pc' = "done" /\ StreamEnd(l)
    /\ UNCHANGED <<req, ffruns, tmp, hits, admitted, now, ffmpeg, apiKey, nreq, call,
                   tasks>>

----------------------------------------------------------------------------
(* /download: the fallback file, the post-processing and the response *)

\* The direct download of fallback_audio_url and its conversion to MP3, both
\* inside one try block: the HTTP download fails, ffmpeg exits non-zero, or
\* the MP3 is there.
FetchOutcomes == {"http_fail", "conv_fail", "ok"}

\* Lines 1953-1988: the fallback download and conversion when a fallback URL
\* was found, then the two checks that end the request with HTTP 500 and
\* remove the directory.
Fetch(o) ==
    /\ pc = "fetch"
    /\ o \in FetchOutcomes
    /\ LET fetches == loc.in_fallback2 /\ loc.fallback_audio_url # NoUrl
           converts == fetches /\ o # "http_fail"
           l == IF fetches /\ o = "ok"
                THEN [loc EXCEPT !.download_success = TRUE, !.mp3 = TRUE]
                ELSE loc
       IN  /\ ffruns' = IF converts
                        THEN Append(ffruns, Run("convert", IF o = "ok" THEN 0 ELSE 1,
                                                "fallback", NoNum, NoNum))
                        ELSE ffruns
           /\ IF ~l.download_success
              THEN /\ tmp' = Removed
                   /\ resp' = Error(500, "Download failed from all sources.", FALSE)
                   /\ pc' = "done"
                   /\ loc' = l
              ELSE IF ~l.mp3
              THEN /\ tmp' = Removed
                   /\ resp' = Error(500, "MP3 conversion failed.", FALSE)
                   /\ pc' = "done"
                   /\ loc' = l
              ELSE /\ loc' = [l EXCEPT !.current_mp3 = "original"]
                   /\ pc' = "trim"
                   /\ UNCHANGED <<tmp, resp>>
    /\ UNCHANGED <<req, log, shared>>

\* Step 1: apply_audio_trim when both bounds are given; on failure the handler
\* logs "Trimming failed, continuing with full audio" and goes on.
\* A variant of Trim that runs the trim but goes on with the untrimmed file.
TrimDiscarded(rc) ==
    /\ pc = "trim"
    /\ rc \in {0, 1}
    /\ IF TrimAsked(loc.start_time, loc.end_time)
       THEN /\ ffruns' = Append(ffruns, Run("trim", rc, loc.current_mp3,
                                            loc.start_time, loc.end_time))
            /\ loc' = loc
       ELSE UNCHANGED <<ffruns, loc>>
    /\ pc' = "effect"
    /\ UNCHANGED <<req, log, tmp, resp, shared>>

Trim(rc) ==
    /\ pc = "trim"
    /\ rc \in {0, 1}
    /\ IF TrimAsked(loc.start_time, loc.end_time)
       THEN /\ ffruns' = Append(ffruns, Run("trim", rc, loc.current_mp3,
                                            loc.start_time, loc.end_time))
            /\ loc' = [loc EXCEPT !.current_mp3 = IF rc = 0 THEN "trimmed" ELSE @]
       ELSE UNCHANGED <<ffruns, loc>>
    /\ pc' = "effect"
    /\ UNCHANGED <<req, log, tmp, resp, shared>>

\* A variant of process_audio that hands back its input when ffmpeg fails.
process_audio_lenient(input, mode, rc) ==
    [base |-> input, effect |-> IF mode # "standard" /\ rc = 0 THEN mode ELSE "none"]

\* A variant of process_audio that returns the output path whatever the
\* exit status of ffmpeg.
process_audio_any_exit(input, mode, rc) ==
    IF mode = "standard" THEN [base |-> input, effect |-> "none"]
    ELSE [base |-> input, effect |-> mode]

\* process_audio: (the path it returns, the ffmpeg process it ran, if any).
\* standard returns the input path; every other mode runs one ffmpeg process
\* and returns its output path, or None when it did not exit zero.
process_audio(input, mode, rc) ==
    IF mode = "standard" THEN [base |-> input, effect |-> "none"]
    ELSE IF rc = 0 THEN [base |-> input, effect |-> mode]
    ELSE NoFile

\* Step 2: process_audio on current_mp3; None ends the request with HTTP 500
\* and removes the directory.
Effect(rc) ==
    /\ pc = "effect"
    /\ rc \in {0, 1}
    /\ LET mode == req.in.mode
           final_path == process_audio(loc.current_mp3, mode, rc)
       IN  /\ ffruns' = IF mode = "standard" THEN ffruns
                        ELSE Append(ffruns, Run(mode, rc, loc.current_mp3, NoNum, NoNum))
           /\ loc' = [loc EXCEPT !.final_path = final_path]
           /\ IF final_path = NoFile
              THEN /\ tmp' = Removed
                   /\ resp' = Error(500, "Audio processing failed for mode", FALSE)
                   /\ pc' = "done"
              ELSE pc' = "embed" /\ UNCHANGED <<tmp, resp>>
    /\ UNCHANGED <<req, log, shared>>

\* mode_suffixes
ModeSuffix(mode) ==
    CASE mode = "bass_boost" -> "_bass_boosted"
      [] mode = "nightcore" -> "_nightcore"
      [] mode = "minus_one" -> "_instrumental"
      [] OTHER -> ""

\* int(x) raises on NaN.
IntRaises(x) == x = NaN

\* Step 3 and the response: embed_metadata (it returns True or False and never
\* raises), the output file name (int() of the trim bounds), and the
\* StreamingResponse over iterfile().
Embed(ok) ==
    /\ pc = "embed"
    /\ ok \in BOOLEAN
    /\ loc' = [loc EXCEPT !.tagged = ok]
    /\ LET st == loc.start_time
           et == loc.end_time
           asked == TrimAsked(st, et)
       IN  IF asked /\ (IntRaises(st) \/ IntRaises(et))
           THEN resp' = Unhandled /\ pc' = "done"
           ELSE /\ resp' = [NoResp EXCEPT
                              !.status = 200, !.body = "file", !.file = loc.final_path,
                              !.suffix = ModeSuffix(req.in.mode),
                              !.trimsfx = IF asked THEN [on |-> TRUE, st |-> st, et |-> et]
                                          ELSE NoTrim]
                /\ pc' = "streaming"
    /\ UNCHANGED <<req, log, ffruns, tmp, shared>>

\* What becomes of the StreamingResponse: the client reads it to the end, the
\* client goes away part-way (the generator is closed inside its try block),
\* or the body iterator is never started (the client is gone before the first
\* chunk is asked for): a generator that never started runs no finally block.
Fates == {"all", "part", "unread"}

\* iterfile(): try: yield from f, finally: shutil.rmtree(tmp_dir).
iterfile(fate, dir) == IF fate = "unread" THEN dir ELSE Removed

Stream(fate) ==
    /\ pc = "streaming"
    /\ fate \in Fates
    /\ tmp' = iterfile(fate, tmp)
    /\ resp' = [resp EXCEPT !.sent = fate]
    /\ pc' = "done"
    /\ UNCHANGED <<req, loc, log, ffruns, shared>>

\* Time passes.
Tick(d) ==
    /\ d > 0
    /\ now' = now + d
    /\ UNCHANGED <<pc, req, loc, log, ffruns, tmp, resp, hits, admitted,
                   audio_url_cache, ffmpeg, apiKey, nreq, call, tasks>>

----------------------------------------------------------------------------
(* Specifications *)

\* No request yet.
Idle ==
    /\ pc = "idle"
    /\ req = NoReq
    /\ loc = LocInit
    /\ log = << >>
    /\ ffruns = << >>
    /\ tmp = "none"
    /\ resp = NoResp
    /\ hits = [c \in Cells |-> 0]
    /\ admitted = [c \in Cells |-> 0]
    /\ audio_url_cache = [v \in CacheKeys |-> NoEntry]
    /\ now = 0
    /\ ffmpeg \in BOOLEAN
    /\ apiKey \in BOOLEAN
    /\ nreq = 0

Init == Idle /\ call = NoCall /\ tasks = NoTasks

\* The steps of the request in flight.
Step ==
    \/ \E o \in ExtractOutcomes(req.ep) : ExtractInfo(o)
    \/ \E o \in ApiSearchOutcomes \cup ApiInfoOutcomes : ApiStep(o)
    \/ \E o \in InvSearchOutcomes : InvSearch(o)
    \/ \E o \in PipedSearchOutcomes : PipedSearch(o)
    \/ \E ans \in RelayScenarios : InvInfo(ans)
    \/ \E ans \in RelayScenarios : PipedInfo(ans)
    \/ Prepare
    \/ \E o \in DownloadOutcomes : PrimaryDownload(o)
    \/ \E k \in 0..NumConfigs : AltConfigs(k)
    \/ \E ok \in BOOLEAN : Cobalt(ok)
    \/ \E a \in RelayAnswers(req.ep, loc) : InvAudio(a[1], a[2])
    \/ \E a \in RelayAnswers(req.ep, loc) : PipedAudio(a[1], a[2])
    \/ \E o \in FetchOutcomes : Fetch(o)
    \/ \E rc \in {0, 1} : Trim(rc)
    \/ \E rc \in {0, 1} : Effect(rc)
    \/ \E ok \in BOOLEAN : Embed(ok)
    \/ \E fate \in Fates : Stream(fate)

\* The life of one request: any endpoint, any input, any upstream behaviour.
Request ==
    \E ep \in Endpoints : \E in \in InputsOf(ep) :
        /\ pc = "idle"
        /\ nreq' = nreq + 1
        /\ Arrive("ip1", ep, in)

Next == Request \/ Step

Spec == Init /\ [][Next]_vars

----------------------------------------------------------------------------
(* The cache over time: /preview and /stream requests while the clock runs *)

\* The clock advances by CACHE_EXPIRY, or by a second more: one tick puts an
\* entry at, or just past, its expiry.
TickSteps == {CACHE_EXPIRY, CACHE_EXPIRY + 1}

InitCache == Init /\ ffmpeg /\ ~apiKey

RequestCache ==
    \E ep \in {"preview", "stream"} : \E in \in InputsOf(ep) :
        /\ nreq < MaxCacheRequests
        /\ nreq' = nreq + 1
        /\ Arrive("ip1", ep, in)

StepCache ==
    \/ \E o \in ExtractOutcomes(req.ep) : ExtractInfo(o)
    \/ \E a \in RelayAnswers(req.ep, loc) : InvAudio(a[1], a[2])
    \/ \E a \in RelayAnswers(req.ep, loc) : PipedAudio(a[1], a[2])

\* Time passes between requests: the handlers are over long before the clock
\* has advanced by CACHE_EXPIRY.
TickCache ==
    \E d \in TickSteps :
        /\ now + d <= MaxTicks * (CACHE_EXPIRY + 1)
        /\ pc \in {"idle", "done"}
        /\ Tick(d)

NextCache == RequestCache \/ StepCache \/ TickCache

SpecCache == InitCache /\ [][NextCache]_vars

----------------------------------------------------------------------------
(* The limiter under load: two clients, every limited route, a healthy        *)
(* upstream                                                                   *)

InitRate == Init /\ ffmpeg /\ ~apiKey

\* The request each client repeats: a YouTube URL, no effect, no trim.
RateInput == [NoInput EXCEPT !.kind = "yt", !.vid = "v1"]

BusyCells == {c \in Cells : hits[c] > 0}

\* Who asks for what: the first client uses every limited route, the second
\* one the two download routes.
Traffic == ({"ip1"} \X Limited) \cup ({"ip2"} \X {"download", "video"})

RequestRate ==
    \E ip \in Clients, ep \in Limited :
        /\ <<ip, ep>> \in Traffic
        /\ hits[LimitKey(ip, ep)] <= LimitOf(ep)
        /\ Cardinality(BusyCells \cup {LimitKey(ip, ep)}) <= MaxBusyCells
        /\ Arrive(ip, ep, RateInput)
        /\ UNCHANGED nreq

\* yt-dlp answers every extraction and every download.
HealthyExtract(ep) ==
    IF ep = "preview" THEN YdlOk(Duration, "m4a") ELSE YdlOk(Duration, "none")

StepRate ==
    \/ ExtractInfo(HealthyExtract(req.ep))
    \/ Prepare
    \/ PrimaryDownload(DlOk)
    \/ AltConfigs(0)
    \/ Cobalt(FALSE)
    \/ InvAudio(NoAnswer, "none")
    \/ PipedAudio(NoAnswer, "none")
    \/ Fetch("ok")
    \/ Trim(0)
    \/ Effect(0)
    \/ Embed(TRUE)
    \/ Stream("all")

ExpireRate == \E key \in Cells : WindowExpire(key)

NextRate == RequestRate \/ StepRate \/ ExpireRate

SpecRate == InitRate /\ [][NextRate]_vars

----------------------------------------------------------------------------
(* Requests one after another: every route, the lyrics routes included, with  *)
(* the cache filled by the ones before                                        *)

MaxFrameRequests == 2

\* lyrics_search and get_lyrics: no limiter, no module-level state but the
\* read-only POPULAR_SONGS; the answer is 400 (bad query), 404 (no lyrics) or
\* 200.
Lyrics(status) ==
    /\ pc \in {"idle", "done"}
    /\ req' = [ep |-> "lyrics", ip |-> "ip1", in |-> NoInput]
    /\ loc' = LocInit
    /\ log' = << >>
    /\ ffruns' = << >>
    /\ tmp' = "none"
    /\ pc' = "done"
    /\ resp' = IF status = 200
               THEN [NoResp EXCEPT !.status = 200, !.body = "lyrics"]
               ELSE Error(status, "lyrics", FALSE)
    /\ UNCHANGED <<hits, admitted, audio_url_cache, now, ffmpeg, apiKey, call, tasks>>

\* A YouTube URL or a search phrase (a video ID for /stream), no effect, no
\* trim.
FrameInputs(ep) ==
    {in \in InputsOf(ep) : /\ in.kind \in {"yt", "search"} /\ in.vid # ForeignId
                           /\ in.mode = "standard"
                           /\ in.st = NoNum /\ in.et = NoNum}

RequestFrame ==
    /\ nreq < MaxFrameRequests
    /\ nreq' = nreq + 1
    /\ \/ \E ep \in Endpoints : \E in \in FrameInputs(ep) : Arrive("ip1", ep, in)
       \/ \E status \in {200, 400, 404} : Lyrics(status)

NextFrame == RequestFrame \/ Step

SpecFrame == Init /\ [][NextFrame]_vars

----------------------------------------------------------------------------

(* The pure helpers. A text is a sequence of characters.                      *)

\* Whitespace runs tried around a text, and the free characters after its head.
MaxPad == 1
MaxTail == 2

\* Characters str.strip() removes.
Whitespace == {" ", "\n"}

\* str.lower() on the characters used here.
Lower(c) ==
    CASE c = "H" -> "h"
      [] c = "T" -> "t"
      [] c = "P" -> "p"
      [] c = "S" -> "s"
      [] c = "A" -> "a"
      [] OTHER -> c

\* str.lstrip(): the text without its leading run of whitespace.
lstrip(s) ==
    LET k == CHOOSE k \in 0..Len(s) :
                 /\ \A i \in 1..k : s[i] \in Whitespace
                 /\ k < Len(s) => s[k + 1] \notin Whitespace
    IN  SubSeq(s, k + 1, Len(s))

\* str.rstrip(): the text without its trailing run of whitespace.
rstrip(s) ==
    LET k == CHOOSE k \in 0..Len(s) :
                 /\ \A i \in (k + 1)..Len(s) : s[i] \in Whitespace
                 /\ k > 0 => s[k] \notin Whitespace
    IN  SubSeq(s, 1, k)

\* str.strip()
strip(s) == rstrip(lstrip(s))

\* str.lower()
lower(s) == IF s = << >> THEN << >> ELSE [i \in 1..Len(s) |-> Lower(s[i])]

\* str.startswith(prefix)
startswith(s, prefix) ==
    Len(s) >= Len(prefix) /\ SubSeq(s, 1, Len(prefix)) = prefix

Http == <<"h", "t", "t", "p", ":", "/", "/">>
Https == <<"h", "t", "t", "p", "s", ":", "/", "/">>
YtSearch == <<"y", "t", "s", "e", "a", "r", "c", "h", "1", ":">>

\* A variant of is_url_text that compares without lower-casing.
is_url_exact(text) ==
    LET t == strip(text) IN startswith(t, Http) \/ startswith(t, Https)

\* is_url on the text itself.
is_url_text(text) ==
    LET t == lower(strip(text)) IN startswith(t, Http) \/ startswith(t, Https)

\* prepare_url
prepare_url(input_text) ==
    LET text == strip(input_text)
    IN  IF is_url_text(text) THEN text ELSE YtSearch \o text

\* All sequences over S of length at most n.
SeqsUpTo(S, n) == UNION {[1..k -> S] : k \in 0..n}

\* How the texts tried begin, once the whitespace is off.
Heads ==
    {Http, Https, << >>,
     <<"H", "T", "T", "P", ":", "/", "/">>,
     <<"H", "t", "t", "p", "S", ":", "/", "/">>,
     <<"h", "t", "t", "p", ":", "/">>,
     <<"h", "t", "t", "p", "/", "/">>,
     <<"h", "t", "t", "p", "s", ":", "/">>,
     <<"h", "t", "t", "p", "s", "s", ":", "/", "/">>,
     <<"t", "t", "p", ":", "/", "/">>,
     <<"f", "t", "p", ":", "/", "/">>,
     <<"a", "h", "t", "t", "p", ":", "/", "/">>,
     <<"h", " ", "t", "t", "p", ":", "/", "/">>,
     <<"h", "t", "t", "p">>}

Texts ==
    {a \o h \o t \o b : a \in SeqsUpTo(Whitespace, MaxPad), h \in Heads,
                        t \in SeqsUpTo({"a", "A", " "}, MaxTail),
                        b \in SeqsUpTo(Whitespace, MaxPad)}

\* A helper about to be called on an argument.
Pending(fn, arg) == [fn |-> fn, arg |-> arg, out |-> << >>, returned |-> FALSE]

Returned(c, out) == [c EXCEPT !.out = out, !.returned = TRUE]

IsUrlCall ==
    /\ call.fn = "is_url"
    /\ ~call.returned
    /\ call' = Returned(call, is_url_text(call.arg))
    /\ UNCHANGED <<pc, req, loc, log, ffruns, tmp, resp, hits, admitted,
                   audio_url_cache, now, ffmpeg, apiKey, nreq, tasks>>

PrepareUrlCall ==
    /\ call.fn = "prepare_url"
    /\ ~call.returned
    /\ call' = Returned(call, prepare_url(call.arg))
    /\ UNCHANGED <<pc, req, loc, log, ffruns, tmp, resp, hits, admitted,
                   audio_url_cache, now, ffmpeg, apiKey, nreq, tasks>>

----------------------------------------------------------------------------

(* sanitize_filename and format_duration *)

\* Lengths of the names tried, and the durations tried.
MaxNameLen == 205
MaxSeconds == 7325

\* [:100]
NameLimit == 100

\* The characters of the class [\\/*?:"<>|].
Forbidden == {"\\", "/", "*", "?", ":", "\"", "<", ">", "|"}

\* re.sub(pattern, "", name)
Strike(name) == SelectSeq(name, LAMBDA c : c \notin Forbidden)

\* s[:n]
Take(s, n) == IF Len(s) <= n THEN s ELSE SubSeq(s, 1, n)

\* A variant of sanitize_filename that cuts first and strips afterwards,
\* keeping NameLimit characters and the one after them.
sanitize_filename_long(name) == strip(Take(Strike(name), NameLimit + 1))

\* sanitize_filename
sanitize_filename(name) == Take(strip(Strike(name)), NameLimit)

\* What the names tried repeat.
Patterns ==
    {<<"a">>, <<" ">>, <<"/">>, <<"a", "/">>, <<" ", "a">>, <<"a", " ">>,
     <<"\\", "a", "*", " ">>, <<"?", ":", "\"", "<", ">", "|", "b">>,
     <<"a", "b", " ", " ", "c">>, <<" ", "|", " ", "a", ":">>}

\* The name of length n that repeats pattern p.
Cycle(p, n) == IF n = 0 THEN << >> ELSE [i \in 1..n |-> p[((i - 1) % Len(p)) + 1]]

Names == {Cycle(p, n) : p \in Patterns, n \in 0..MaxNameLen}

Digits == <<"0", "1", "2", "3", "4", "5", "6", "7", "8", "9">>

\* str(n) of a non-negative integer.
RECURSIVE Dec(_)
Dec(n) == IF n < 10 THEN <<Digits[n + 1]>> ELSE Dec(n \div 10) \o <<Digits[(n % 10) + 1]>>

\* f"{n}": a variant of Pad2 without the padding.
Pad0(n) == Dec(n)

\* f"{n:02}"
Pad2(n) == IF Len(Dec(n)) < 2 THEN <<"0">> \o Dec(n) ELSE Dec(n)

Unknown == <<"U", "n", "k", "n", "o", "w", "n">>
Colon == <<":">>

\* format_duration; NoNum stands for None.
format_duration(seconds) ==
    IF seconds = NoNum THEN Unknown
    ELSE LET secs == seconds % 60
             hrs == (seconds \div 60) \div 60
             mins == (seconds \div 60) % 60
         IN  IF hrs # 0 THEN Dec(hrs) \o Colon \o Pad2(mins) \o Colon \o Pad2(secs)
             ELSE Dec(mins) \o Colon \o Pad2(secs)

Seconds == {NoNum} \cup (0..MaxSeconds)

SanitizeCall ==
    /\ call.fn = "sanitize_filename"
    /\ ~call.returned
    /\ call' = Returned(call, sanitize_filename(call.arg))
    /\ UNCHANGED <<pc, req, loc, log, ffruns, tmp, resp, hits, admitted,
                   audio_url_cache, now, ffmpeg, apiKey, nreq, tasks>>

FormatCall ==
    /\ call.fn = "format_duration"
    /\ ~call.returned
    /\ call' = Returned(call, format_duration(call.arg))
    /\ UNCHANGED <<pc, req, loc, log, ffruns, tmp, resp, hits, admitted,
                   audio_url_cache, now, ffmpeg, apiKey, nreq, tasks>>

\* Every helper on every argument tried.
InitHelpers ==
    /\ Idle
    /\ tasks = NoTasks
    /\ \/ call \in {Pending(fn, t) : fn \in {"is_url", "prepare_url"}, t \in Texts}
       \/ call \in {Pending("sanitize_filename", n) : n \in Names}
       \/ call \in {Pending("format_duration", n) : n \in Seconds}

NextHelpers == IsUrlCall \/ PrepareUrlCall \/ SanitizeCall \/ FormatCall

SpecHelpers == InitHelpers /\ [][NextHelpers]_vars

----------------------------------------------------------------------------

(* The relay helpers, instance by instance *)

\* len(INVIDIOUS_INSTANCES), len(PIPED_INSTANCES)
NumInvidious == 8
NumPiped == 6

RelayFns == {"get_invidious_video_info", "get_piped_video_info"}

\* The hard-coded list of a helper, by position.
InstancesOf(fn) ==
    IF fn = "get_invidious_video_info" THEN 1..NumInvidious ELSE 1..NumPiped

\* A helper at the top of its loop: nobody contacted yet.
RelayCall(fn) ==
    [fn |-> fn, arg |-> "v1", out |-> [from |-> 0, data |-> "none"],
     returned |-> FALSE, tried |-> << >>]

\* A variant of ReturnsData that takes any HTTP 200 body for data, whichever
\* the helper.
ReturnsDataOnAny200(fn, answer) == answer # "fail"

\* Whether the loop body returns the instance's answer: Invidious has the
\* return inside the test of 'error' (line 549), Piped after it (line 570).
ReturnsData(fn, answer) ==
    IF fn = "get_invidious_video_info" THEN answer = "ok" ELSE answer # "fail"

\* One turn of the loop over instances[:5]: the next instance of the shuffled
\* copy (any instance not yet taken) answers; the helper returns its body or
\* goes on.
RelayContact(inst, answer) ==
    /\ call.fn \in RelayFns
    /\ ~call.returned
    /\ Len(call.tried) < InstancesTried
    /\ inst \in InstancesOf(call.fn)
    /\ \A i \in DOMAIN call.tried : call.tried[i].inst # inst
    /\ answer \in Answers
    /\ call' = [call EXCEPT
                  !.tried = Append(@, [inst |-> inst, answer |-> answer]),
                  !.returned = ReturnsData(call.fn, answer),
                  !.out = IF ReturnsData(call.fn, answer)
                          THEN [from |-> inst, data |-> answer] ELSE @]
    /\ UNCHANGED <<pc, req, loc, log, ffruns, tmp, resp, hits, admitted,
                   audio_url_cache, now, ffmpeg, apiKey, nreq, tasks>>

\* The loop is over: return None.
RelayExhausted ==
    /\ call.fn \in RelayFns
    /\ ~call.returned
    /\ Len(call.tried) = InstancesTried
    /\ call' = [call EXCEPT !.returned = TRUE]
    /\ UNCHANGED <<pc, req, loc, log, ffruns, tmp, resp, hits, admitted,
                   audio_url_cache, now, ffmpeg, apiKey, nreq, tasks>>

InitRelay == Idle /\ tasks = NoTasks /\ call \in {RelayCall(fn) : fn \in RelayFns}

NextRelay ==
    \/ \E inst \in 1..NumInvidious, answer \in Answers : RelayContact(inst, answer)
    \/ RelayExhausted

SpecRelay == InitRelay /\ [][NextRelay]_vars

----------------------------------------------------------------------------

(* The log records of the request in flight *)

\* str(e) of an exception of yt-dlp, as the handlers put it into a log record:
\* yt-dlp words its errors "ERROR: [<extractor>] <video id>: <message>" or
\* "ERROR: Unsupported URL: <url>", so the text names what the client asked
\* for.
ExceptionText(in, sig) == [sig |-> sig, names |-> <<in.kind, in.vid>>]

\* A log record whose message is a constant of the program.
Fixed(line) == [line |-> line, arg |-> [sig |-> "", names |-> <<"", Null>>]]

\* logger.warning(f"... {e}") at the given line.
Warned(line, in, sig) == [line |-> line, arg |-> ExceptionText(in, sig)]

\* The records logged so far for the request in flight: the fixed "request
\* received" line of the route and one warning for each yt-dlp exception
\* caught.
LogRecords ==
    LET info_line == CASE req.ep = "analyze" -> 1456
                       [] req.ep = "preview" -> 1725
                       [] req.ep = "download" -> 1824
                       [] req.ep = "video" -> 2107
                       [] OTHER -> 1616
        dl_line == IF req.ep = "video" THEN 2153 ELSE 1921
        first_line == CASE req.ep = "analyze" -> 1432
                        [] req.ep = "preview" -> 1673
                        [] req.ep = "download" -> 1794
                        [] req.ep = "video" -> 2072
                        [] OTHER -> 0
    IN  {Fixed(first_line) : x \in IF first_line > 0 /\ pc # "idle" /\ resp.status # 429
                                   THEN {1} ELSE {}}
        \cup {Warned(info_line, req.in, loc.yt_dlp_error) :
                 x \in IF loc.yt_dlp_error # Null THEN {1} ELSE {}}
        \cup {Warned(dl_line, req.in, loc.dl_error) :
                 x \in IF loc.dl_error # Null THEN {1} ELSE {}}

----------------------------------------------------------------------------

(* Properties *)

Last(s) == s[Len(s)]

Download == req.ep = "download"

FailedRun(i) == ffruns[i].rc # 0

\* The place of a contact in the cascades of the handlers.
Rank(c) ==
    CASE c.src = "yt-dlp" /\ c.what = "info" -> 0
      [] c.src = "api" -> 1
      [] c.src = "invidious" /\ c.what \in {"search", "info"} -> 2
      [] c.src = "piped" /\ c.what \in {"search", "info"} -> 3
      [] c.src = "yt-dlp" /\ c.what = "download" -> 4
      [] c.src = "yt-dlp" /\ c.what = "alt" -> 5
      [] c.src = "cobalt" -> 6
      [] c.src = "invidious" /\ c.what = "audio" -> 7
      [] c.src = "piped" /\ c.what = "audio" -> 8

\* The name the contacts carry for the source of an info dict.
SourceName(src) == IF src = "ytdlp" THEN "yt-dlp" ELSE src

\* C1: when a /download or /download-video request is over, the temporary
\* directory it created is gone, whatever the exit path.
C1_TempDirRemoved ==
    (pc = "done" /\ req.ep \in {"download", "video"}) => tmp # "exists"

C3_NoSourceTwice ==
    req.ep \in {"analyze", "preview", "download"} =>
        \A i, j \in DOMAIN log : i < j => log[i].src # log[j].src

\* C3, as the code has it: the source that yielded the result (the metadata of
\* /analyze, the audio URL of /preview, the fallback URL or the MP3 of
\* /download) is the last one contacted in the request; no contact (source,
\* purpose, configuration) is made twice, and in /analyze and /preview no
\* source is contacted twice.
C3_StopsAtFirstSuccess ==
    /\ \A i, j \in DOMAIN log : i < j => log[i] # log[j]
    /\ req.ep \in {"analyze", "preview"} =>
          \A i, j \in DOMAIN log : i < j => log[i].src # log[j].src
    /\ (req.ep = "analyze" /\ loc.info # NoInfo) =>
          Last(log).src = SourceName(loc.info.src)
    /\ (req.ep = "preview" /\ loc.audio_url # NoUrl) =>
          Last(log).src = loc.audio_url.src
    /\ (Download /\ loc.fallback_audio_url # NoUrl) =>
          Last(log).src = loc.fallback_audio_url.src
    /\ (Download /\ loc.mp3 /\ loc.fallback_audio_url = NoUrl) =>
          Last(log).src = "yt-dlp" /\ Last(log).what \in {"download", "alt"}

\* A /download request served by the second alternative configuration after
\* the primary download raised: yt-dlp was contacted four times, nothing else.
C3_SecondConfigServes ==
    /\ Download /\ pc = "done" /\ resp.status = 200
    /\ Len(log) = 4
    /\ log[2] = Contact("yt-dlp", "download", 0)
    /\ log[4] = Contact("yt-dlp", "alt", 2)

C5_AnalyzeFailureIs400 ==
    (pc = "done" /\ req.ep = "analyze" /\ (loc.info = NoInfo \/ loc.info.err)) =>
        resp.status = 400

\* C6, as the specification has it: a /download request in which some ffmpeg
\* process exited non-zero ends in an error response.
C6_AnyFailureEndsInError ==
    (pc = "done" /\ Download /\ \E i \in DOMAIN ffruns : FailedRun(i)) =>
        resp.body = "error"

\* C6, as the code has it: a failed mode effect or fallback conversion ends
\* the request with HTTP 500 and the directory removed; a failed trim leaves
\* the untrimmed file as the input of what follows, and that is what a file
\* response serves.
C6_FailureHandling ==
    /\ (\E i \in DOMAIN ffruns : FailedRun(i) /\ ffruns[i].what # "trim") =>
          /\ pc = "done"
          /\ resp.status = 500 /\ resp.body = "error"
          /\ tmp = Removed
    /\ (\E i \in DOMAIN ffruns : FailedRun(i) /\ ffruns[i].what = "trim") =>
          /\ loc.current_mp3 = "original"
          /\ resp.body = "file" => resp.file.base = "original"

\* A failed trim followed by a file response read to its end.
C6_TrimFailedAudioServed ==
    /\ pc = "done" /\ resp.status = 200 /\ resp.body = "file" /\ resp.sent = "all"
    /\ \E i \in DOMAIN ffruns : FailedRun(i) /\ ffruns[i].what = "trim"
    /\ resp.file.base = "original"

\* C7, as the specification has it: a /download request with both trim bounds
\* and start_time >= end_time ends in HTTP 400.
C7_AlwaysHttp400 ==
    (pc = "done" /\ Download /\ Ge(req.in.st, req.in.et)) => resp.status = 400

\* C7, as the code has it: such a request never has a temporary directory, an
\* audio download or an ffmpeg process; it ends in an error, which is the 400
\* of the trim validation once ffmpeg is there, the limiter let the request
\* through and a titled info was found.
C7_RejectedTrimDoesNothing ==
    (Download /\ Ge(req.in.st, req.in.et)) =>
        /\ tmp = "none"
        /\ ffruns = << >>
        /\ \A i \in DOMAIN log : log[i].what \notin {"download", "alt", "audio"}
        /\ pc = "done" => resp.body = "error" /\ resp.status \in {400, 429, 500}
        /\ (pc = "done" /\ resp.status # 429 /\ ffmpeg
              /\ loc.info # NoInfo /\ loc.info.title # Null) =>
              resp = Error(400, "start_time must be less than end_time", FALSE)

\* A request with start_time = end_time rejected by the trim validation.
C7_EqualBoundsRejected ==
    /\ pc = "done" /\ Download
    /\ IsNum(req.in.st) /\ req.in.st = req.in.et
    /\ resp = Error(400, "start_time must be less than end_time", FALSE)

C9_IsolatedAccounting ==
    [][\A c \in Cells :
          hits'[c] > hits[c] =>
              /\ c = <<req'.ip, req'.ep>>
              /\ \A d \in Cells \ {c} :
                    hits'[d] = hits[d] /\ admitted'[d] = admitted[d]]_vars

\* A client's first /download request served while the other client has
\* used up its /download allowance.
C9_OtherClientStillServed ==
    /\ pc = "done" /\ Download /\ req.ip = "ip2" /\ resp.status = 200
    /\ hits[<<"ip1", "download">>] > DownloadLimit
    /\ hits[<<"ip2", "download">>] = 1

\* C10: /stream serves a cached URL exactly when the entry it finds is at most
\* CACHE_EXPIRY seconds old, and then contacts no resolver; an older entry is
\* deleted, and the request either resolves the URL afresh and stores it or
\* ends without an entry for the video.
C10_CacheExpiry ==
    req.ep = "stream" =>
        /\ resp.from_cache =>
              loc.lookup = "live" /\ IsNum(loc.age) /\ loc.age <= CACHE_EXPIRY
        /\ (IsNum(loc.age) /\ loc.age <= CACHE_EXPIRY) =>
              /\ loc.lookup = "live" /\ pc = "done"
              /\ resp.status = 200 /\ resp.from_cache
              /\ log = << >>
        /\ (IsNum(loc.age) /\ loc.age > CACHE_EXPIRY) =>
              /\ loc.lookup = "expired" /\ ~resp.from_cache
              /\ pc # "done" => audio_url_cache[req.in.vid] = NoEntry
              /\ (pc = "done" /\ resp.status = 200) =>
                    /\ log # << >>
                    /\ audio_url_cache[req.in.vid] =
                          Entry(resp.url, loc.content_type, resp.url.at)
              /\ (pc = "done" /\ resp.status # 200) =>
                    audio_url_cache[req.in.vid] = NoEntry

\* A /stream request that found an entry one second past CACHE_EXPIRY and
\* served a freshly resolved URL.
C10_ExpiredEntryResolvedAfresh ==
    /\ req.ep = "stream" /\ pc = "done" /\ resp.status = 200
    /\ loc.lookup = "expired" /\ loc.age = CACHE_EXPIRY + 1
    /\ ~resp.from_cache

\* C11: a request to /analyze, /download, /download-video or a lyrics route
\* neither writes audio_url_cache nor takes anything from it: each step of
\* such a request leaves the cache as it was, records no cache lookup and
\* builds no response from a cache entry.
FrameRoutes == {"analyze", "download", "video", "lyrics"}

C12_TrimBeforeEffect ==
    (Download /\ TrimAsked(req.in.st, req.in.et)) =>
        /\ \A i \in DOMAIN ffruns :
              ffruns[i].what \in Modes =>
                 /\ i > 1
                 /\ ffruns[i - 1].what = "trim"
                 /\ ffruns[i].input = IF ffruns[i - 1].rc = 0 THEN "trimmed"
                                      ELSE "original"
        /\ loc.final_path # NoFile =>
              /\ ffruns # << >>
              /\ \E i \in DOMAIN ffruns :
                    /\ ffruns[i].what = "trim"
                    /\ loc.final_path.base = IF ffruns[i].rc = 0 THEN "trimmed"
                                             ELSE "original"

\* A trimmed nightcore download: the trim exits zero, the effect runs on its
\* output, and the result is served.
C12_EffectOnTrimOutput ==
    /\ Download
    /\ pc = "done"
    /\ resp.status = 200
    /\ Len(ffruns) >= 2
    /\ Last(ffruns).what = "nightcore"
    /\ Last(ffruns).input = "trimmed"
    /\ ffruns[Len(ffruns) - 1].what = "trim"
    /\ ffruns[Len(ffruns) - 1].rc = 0

\* C13: metadata tagging is not fatal: whatever embed_metadata returns, the
\* step that follows it in /download builds the response that serves the
\* processed file.
C13_ServedWhateverEmbedReturns ==
    [][pc = "embed" =>
          /\ resp'.status = 200
          /\ resp'.body = "file"
          /\ resp'.file = loc.final_path]_vars

Analyze == req.ep = "analyze"

Platform == IF loc.is_search THEN "search" ELSE detect_platform(req.in.kind)

\* C14 as stated: every HTTP 400 of /analyze issued after yt-dlp raised
\* carries the yt-dlp error text, whatever the platform of the input.
C14_ErrorTextInEvery400 ==
    (Analyze /\ pc = "done" /\ resp.status = 400 /\ loc.yt_dlp_error # Null) =>
        resp.embeds

\* C14: an HTTP 400 of /analyze issued after yt-dlp raised carries the yt-dlp
\* error text for a search and for every platform but Spotify; for a Spotify
\* URL it is the fixed "Spotify is not supported" text, without the error.
C14_ErrorTextButForSpotify ==
    (Analyze /\ pc = "done" /\ resp.status = 400 /\ loc.yt_dlp_error # Null) =>
        IF Platform = "spotify"
        THEN resp.detail = "Spotify is not supported." /\ ~resp.embeds
        ELSE resp.embeds

\* A TikTok URL on which yt-dlp raised: the 400 carries the error text.
C14_TikTokErrorShown ==
    /\ Analyze
    /\ pc = "done"
    /\ req.in.kind = "tiktok"
    /\ loc.yt_dlp_error # Null
    /\ resp.status = 400
    /\ resp.embeds

\* C15: no log record of an /analyze, /preview, /download or /download-video
\* request carries anything of the URL or query the client sent: every record
\* is fixed by the branch taken.
C15_LogsFreeOfInput ==
    req.ep \in {"analyze", "preview", "download", "video"} =>
        \A r \in LogRecords : r = Fixed(r.line)

\* The characters of s between its first and its last non-whitespace one.
Trimmed(s) ==
    LET keep == {i \in DOMAIN s : s[i] \notin Whitespace}
    IN  IF keep = {} THEN << >>
        ELSE SubSeq(s, CHOOSE i \in keep : \A j \in keep : i <= j,
                       CHOOSE i \in keep : \A j \in keep : i >= j)

BeginsWith(s, p) == Len(s) >= Len(p) /\ \A i \in 1..Len(p) : Lower(s[i]) = p[i]

HasScheme(s) == BeginsWith(Trimmed(s), Http) \/ BeginsWith(Trimmed(s), Https)

\* C16: is_url answers with a boolean, TRUE exactly when the input, stripped
\* and lower-cased, begins with http:// or https://; prepare_url returns the
\* stripped input unchanged in that case and "ytsearch1:" followed by the
\* stripped input otherwise.
C16_UrlDetection ==
    /\ (call.fn = "is_url" /\ call.returned) =>
          /\ call.out \in BOOLEAN
          /\ call.out <=> HasScheme(call.arg)
    /\ (call.fn = "prepare_url" /\ call.returned) =>
          call.out = IF HasScheme(call.arg) THEN Trimmed(call.arg)
                     ELSE YtSearch \o Trimmed(call.arg)

\* prepare_url on a padded upper-case URL: the padding goes, the case stays.
C16_UpperCaseUrlKept ==
    /\ call.fn = "prepare_url"
    /\ call.returned
    /\ call.arg = <<" ">> \o <<"H", "T", "T", "P", ":", "/", "/">> \o <<"A">>
    /\ call.out = <<"H", "T", "T", "P", ":", "/", "/", "A">>

\* C17: the result of sanitize_filename holds none of the characters
\* \ / * ? : " < > | and is at most 100 characters long.
C17_SafeBoundedName ==
    (call.fn = "sanitize_filename" /\ call.returned) =>
        /\ \A i \in DOMAIN call.out : call.out[i] \notin Forbidden
        /\ Len(call.out) <= 100

\* A name of more than 100 characters with forbidden ones among them comes
\* back cut to 100 characters.
C17_LongNameCut ==
    /\ call.fn = "sanitize_filename"
    /\ call.returned
    /\ Len(call.arg) > 100
    /\ \E i \in DOMAIN call.arg : call.arg[i] \in Forbidden
    /\ Len(call.out) = 100

IsNumber(s) == s # << >> /\ \A i \in DOMAIN s : \E d \in DOMAIN Digits : Digits[d] = s[i]

DigitVal(c) == (CHOOSE d \in DOMAIN Digits : Digits[d] = c) - 1

RECURSIVE Val(_)
Val(s) == IF s = << >> THEN 0
          ELSE 10 * Val(SubSeq(s, 1, Len(s) - 1)) + DigitVal(s[Len(s)])

\* A number written without leading zeros.
Unpadded(s) == IsNumber(s) /\ (Len(s) = 1 \/ s[1] # "0")

\* A two-digit number below 60.
TwoDigits(s) == IsNumber(s) /\ Len(s) = 2 /\ Val(s) < 60

\* The fields of a text, split at its colons.
RECURSIVE Split(_)
Split(s) ==
    IF \A i \in DOMAIN s : s[i] # ":" THEN <<s>>
    ELSE LET c == CHOOSE i \in DOMAIN s : s[i] = ":" /\ \A j \in 1..(i - 1) : s[j] # ":"
         IN  <<SubSeq(s, 1, c - 1)>> \o Split(SubSeq(s, c + 1, Len(s)))

\* C18: format_duration gives "Unknown" for None; for an integer n >= 0 it
\* gives H:MM:SS when n >= 3600 and M:SS when n < 3600, H = n div 3600 and
\* M = n div 60 written without padding, MM and SS two digits below 60, and
\* the fields add back up to n.
C18_DurationFormat ==
    (call.fn = "format_duration" /\ call.returned) =>
        LET n == call.arg
            f == Split(call.out)
        IN  IF n = NoNum THEN call.out = Unknown
            ELSE IF n >= 3600
            THEN /\ Len(f) = 3
                 /\ Unpadded(f[1]) /\ TwoDigits(f[2]) /\ TwoDigits(f[3])
                 /\ Val(f[1]) = n \div 3600
                 /\ Val(f[1]) * 3600 + Val(f[2]) * 60 + Val(f[3]) = n
            ELSE /\ Len(f) = 2
                 /\ Unpadded(f[1]) /\ TwoDigits(f[2])
                 /\ Val(f[1]) = n \div 60
                 /\ Val(f[1]) * 60 + Val(f[2]) = n

\* 3661 seconds come out as 1:01:01.
C18_HourMinuteSecond ==
    /\ call.fn = "format_duration"
    /\ call.returned
    /\ call.arg = 3661
    /\ call.out = <<"1", ":", "0", "1", ":", "0", "1">>

Invidious == call.fn = "get_invidious_video_info"

Piped == call.fn = "get_piped_video_info"

Succeeded(i) == call.tried[i].answer = "ok"

NoData == [from |-> 0, data |-> "none"]

\* C19: get_invidious_video_info contacts at most 5 instances of its list,
\* each at most once; it returns the payload of the first one that answered
\* 200 without 'error' and contacts nobody after it; an instance that failed
\* or answered with an error does not end the loop; and it returns None only
\* after all five it tried did not succeed.
C19_InvidiousLoop ==
    Invidious =>
        /\ Len(call.tried) <= 5
        /\ \A i \in DOMAIN call.tried : call.tried[i].inst \in 1..NumInvidious
        /\ \A i, j \in DOMAIN call.tried :
              call.tried[i].inst = call.tried[j].inst => i = j
        /\ \A i \in DOMAIN call.tried : Succeeded(i) => i = Len(call.tried)
        /\ (\E i \in DOMAIN call.tried : Succeeded(i)) =>
              /\ call.returned
              /\ call.out = [from |-> Last(call.tried).inst, data |-> "ok"]
        /\ (call.returned /\ \A i \in DOMAIN call.tried : ~Succeeded(i)) =>
              /\ call.out = NoData
              /\ Len(call.tried) = 5
        /\ (~call.returned) => call.out = NoData

\* An instance that failed, then one that answered with an error, then three
\* more: the fifth answers with data and its payload is returned.
C19_FifthInstanceServes ==
    /\ Invidious
    /\ call.returned
    /\ Len(call.tried) = 5
    /\ call.tried[1].answer = "fail"
    /\ call.tried[2].answer = "error"
    /\ call.tried[1].inst > call.tried[2].inst
    /\ call.out = [from |-> call.tried[5].inst, data |-> "ok"]

\* C20: get_piped_video_info has the success criterion of the Invidious
\* helper: it returns a payload only from an instance that answered 200
\* without 'error', and after a 200 with 'error' it goes on to the next
\* instance.
C20_PipedSameCriterion ==
    Piped =>
        /\ call.out # NoData => call.out.data = "ok"
        /\ \A i \in DOMAIN call.tried :
              (call.tried[i].answer = "error" /\ call.returned) =>
                 \/ i < Len(call.tried)
                 \/ Len(call.tried) = 5 /\ call.out = NoData

\* C21: every trim run of /download is handed bounds with
\* start_time < end_time, the clamping of end_time to the video duration
\* included.
C21_TrimBoundsOrdered ==
    Download =>
        \A i \in DOMAIN ffruns :
            ffruns[i].what = "trim" =>
                /\ IsNum(ffruns[i].st)
                /\ IsNum(ffruns[i].et)
                /\ ffruns[i].st < ffruns[i].et

\* C22: the name of the file /download serves has the trim suffix only when
\* the served audio is the output of a trim to that range, and a mode suffix
\* only when the served audio went through that mode's effect.
C22_NameTellsTheProcessing ==
    (Download /\ resp.status = 200 /\ resp.body = "file") =>
        /\ resp.trimsfx.on =>
              /\ resp.file.base = "trimmed"
              /\ \E i \in DOMAIN ffruns :
                    /\ ffruns[i].what = "trim" /\ ffruns[i].rc = 0
                    /\ ffruns[i].st = resp.trimsfx.st
                    /\ ffruns[i].et = resp.trimsfx.et
        /\ resp.suffix # "" =>
              /\ resp.file.effect = req.in.mode
              /\ resp.suffix = ModeSuffix(resp.file.effect)

\* Contacts made to get the audio of a /download.
DownloadStage(c) == Rank(c) >= 4

Primary == Contact("yt-dlp", "download", 0)

\* C23 as stated: in /download, after yt-dlp's extraction raised, the primary
\* download is never attempted and the request goes directly to the
\* alternative configurations; after an extraction that did not raise, the
\* primary download comes before every alternative configuration and every
\* fallback service.
C23_PrimaryIffExtractionOk ==
    Download =>
        /\ loc.yt_dlp_error # Null =>
              /\ \A i \in DOMAIN log : log[i] # Primary
              /\ pc \in {"cobalt", "inv_audio", "piped_audio", "fetch", "trim",
                         "effect", "embed", "streaming"} =>
                    \E i \in DOMAIN log : log[i] = Contact("yt-dlp", "alt", 1)
        /\ (loc.yt_dlp_error = Null /\ \E i \in DOMAIN log : DownloadStage(log[i])) =>
              \E i \in DOMAIN log :
                  /\ log[i] = Primary
                  /\ \A j \in 1..(i - 1) : ~DownloadStage(log[j])

\* C24: when /analyze or /download adopts a fallback search result, the
\* video_id it resolves is a real one: the watch URL of the info, and the one
\* /analyze returns, is never built from a missing ID.
C24_SearchResultHasVideoId ==
    (req.ep \in {"analyze", "download"} /\ loc.is_search
        /\ loc.info.src \in {"api", "invidious", "piped"}) =>
        /\ loc.video_id # Null
        /\ loc.info.vid # NoneStr
        /\ (Analyze /\ resp.status = 200) => resp.watch # NoneStr

\* C25: when /preview answers with the proxy URL /stream/{video_id}, the cache
\* holds for that video_id the audio URL the request resolved; every entry of
\* the cache has an audio URL; and a /stream request that arrives while the
\* entry of its video_id is at most 300 seconds old serves that entry's URL
\* and leaves the cache as it is.
C25_PreviewFeedsStream ==
    [][/\ (req'.ep = "preview" /\ resp'.status = 200) =>
             /\ resp'.watch \in CacheKeys
             /\ loc'.audio_url # NoUrl
             /\ audio_url_cache'[resp'.watch].url = loc'.audio_url
       /\ \A v \in CacheKeys :
             audio_url_cache'[v] # NoEntry => audio_url_cache'[v].url # NoUrl
       /\ (req'.ep = "stream" /\ pc \in {"idle", "done"} /\ nreq' # nreq) =>
             LET cached == audio_url_cache[req'.in.vid]
             IN  (cached # NoEntry /\ now - cached.ts <= 300) =>
                    /\ resp'.status = 200
                    /\ resp'.url = cached.url
                    /\ audio_url_cache' = audio_url_cache]_vars

\* A /stream request served the URL a relay had resolved 300 seconds earlier.
C25_StreamServesCachedUrl ==
    /\ req.ep = "stream"
    /\ nreq = 2
    /\ resp.from_cache
    /\ resp.url = audio_url_cache[req.in.vid].url
    /\ resp.url.src = "invidious"
    /\ now - resp.url.at = 300

\* ---- Concurrent /stream and /preview requests on one event loop ----

\* The number of requests in flight together.
MaxTasks == 3

\* The coroutines of the requests, in the order the requests arrived.
Tasks == DOMAIN tasks.of

\* A request for the one video: its handler's position, the locals cached
\* and audio_url of stream_audio, the status answered, the entry its del
\* statement removed, and whether another request touched audio_url_cache
\* between its lookup and its store.
Task(ep) ==
    [ep |-> ep, at |-> "new", cached |-> NoEntry, audio_url |-> NoUrl,
     status |-> 0, removed |-> NoEntry, crossed |-> FALSE]

\* The video every concurrent request asks for.
TheVideo == CHOOSE v \in VideoIds : TRUE

\* A variant in which the handlers would await the resolution of the audio
\* URL, giving up the event loop between the lookup and the store.
AwaitsResolving(at) == at \in {"resolve", "body"}

\* The positions at which a coroutine awaits: none in the bodies of
\* stream_audio and get_audio_preview (yt-dlp and the relays are called
\* synchronously); only the generator audio_stream, which runs after the
\* handler has returned, awaits.
Awaits(at) == at = "body"

\* Task t may take its next step: it holds the event loop, or the loop is
\* free and t is ready to be started or resumed.
Runs(t) ==
    \/ tasks.loop = t
    \/ tasks.loop = 0 /\ (tasks.of[t].at = "new" \/ Awaits(tasks.of[t].at))

\* Between its lookup and its store, a stream request is in the middle of
\* its sequence of cache accesses.
Midway(k) == k.ep = "stream" /\ k.at \in {"delete", "resolve", "store"}

\* Task t has moved to record k, touching the cache or not: it keeps the
\* loop unless it now awaits or is over, and every other request that is
\* midway notes a cache access of t.
Moved(t, k, touches) ==
    tasks' = [loop |-> IF Awaits(k.at) \/ k.at = "done" THEN 0 ELSE t,
              of |-> [u \in Tasks |->
                        IF u = t THEN k
                        ELSE IF touches /\ Midway(tasks.of[u])
                             THEN [tasks.of[u] EXCEPT !.crossed = TRUE]
                             ELSE tasks.of[u]]]

ConcFrame == UNCHANGED <<pc, req, loc, log, ffruns, tmp, resp, hits, admitted,
                         now, ffmpeg, apiKey, nreq, call>>

\* A request for /stream/{video_id} or /preview arrives.
ConcArrive(ep) ==
    /\ Len(tasks.of) < MaxTasks
    /\ tasks' = [tasks EXCEPT !.of = Append(@, Task(ep))]
    /\ UNCHANGED audio_url_cache
    /\ ConcFrame

\* The handler is entered: stream_audio goes to its cache lookup,
\* get_audio_preview to the resolution of the audio URL.
ConcStart(t) ==
    /\ Runs(t) /\ tasks.of[t].at = "new"
    /\ Moved(t, [tasks.of[t] EXCEPT
                   !.at = IF tasks.of[t].ep = "stream" THEN "lookup" ELSE "resolve"],
             FALSE)
    /\ UNCHANGED audio_url_cache
    /\ ConcFrame

\* cached = audio_url_cache.get(video_id), and the test of its age.
ConcLookup(t) ==
    LET cached == audio_url_cache[TheVideo]
        k == tasks.of[t]
    IN  /\ Runs(t) /\ k.at = "lookup"
        /\ Moved(t, IF cached = NoEntry THEN [k EXCEPT !.at = "resolve"]
                    ELSE IF Expired(now, cached.ts)
                         THEN [k EXCEPT !.at = "delete", !.cached = cached]
                         ELSE [k EXCEPT !.at = "respond", !.cached = cached,
                                        !.audio_url = cached.url],
                 TRUE)
        /\ UNCHANGED audio_url_cache
        /\ ConcFrame

\* del audio_url_cache[video_id]: a KeyError, answered 500, when the key
\* is gone.
ConcDelete(t) ==
    LET k == tasks.of[t]
    IN  /\ Runs(t) /\ k.at = "delete"
        /\ IF audio_url_cache[TheVideo] = NoEntry
           THEN /\ Moved(t, [k EXCEPT !.at = "done", !.status = 500], TRUE)
                /\ UNCHANGED audio_url_cache
           ELSE /\ Moved(t, [k EXCEPT !.at = "resolve",
                                      !.removed = audio_url_cache[TheVideo]], TRUE)
                /\ audio_url_cache' = [audio_url_cache EXCEPT ![TheVideo] = NoEntry]
        /\ ConcFrame

\* yt-dlp, then Invidious, then Piped, all called synchronously: an audio
\* URL (src names where it came from), or the error of the endpoint.
ConcResolve(t, src) ==
    LET k == tasks.of[t]
    IN  /\ Runs(t) /\ k.at = "resolve"
        /\ Moved(t, IF src = "none"
                    THEN [k EXCEPT !.at = "done",
                                   !.status = IF k.ep = "stream" THEN 404 ELSE 400]
                    ELSE [k EXCEPT !.at = "store", !.audio_url = Url(src, now)],
                 FALSE)
        /\ UNCHANGED audio_url_cache
        /\ ConcFrame

\* audio_url_cache[video_id] = (audio_url, content_type, time.time())
ConcStore(t) ==
    LET k == tasks.of[t]
    IN  /\ Runs(t) /\ k.at = "store"
        /\ Moved(t, [k EXCEPT !.at = "respond"], TRUE)
        /\ audio_url_cache' = [audio_url_cache EXCEPT ![TheVideo] =
                                  Entry(k.audio_url, "audio/mp4", now)]
        /\ ConcFrame

\* The handler returns: the StreamingResponse, whose generator then
\* awaits the upstream chunks, or the PreviewResponse.
ConcRespond(t) ==
    LET k == tasks.of[t]
    IN  /\ Runs(t) /\ k.at = "respond"
        /\ Moved(t, [k EXCEPT !.at = IF k.ep = "stream" THEN "body" ELSE "done",
                              !.status = 200], FALSE)
        /\ UNCHANGED audio_url_cache
        /\ ConcFrame

\* audio_stream has relayed its last chunk.
ConcBody(t) ==
    LET k == tasks.of[t]
    IN  /\ Runs(t) /\ k.at = "body"
        /\ Moved(t, [k EXCEPT !.at = "done"], FALSE)
        /\ UNCHANGED audio_url_cache
        /\ ConcFrame

\* Time passes, also while a handler is blocked in a synchronous call: long
\* enough for an entry stored before to have expired.
TickConc ==
    /\ now + CACHE_EXPIRY + 1 <= MaxTicks * (CACHE_EXPIRY + 1)
    /\ Tick(CACHE_EXPIRY + 1)

InitConc == Idle /\ call = NoCall /\ tasks = NoTasks /\ ffmpeg /\ ~apiKey

ArriveConc == \E ep \in {"stream", "preview"} : ConcArrive(ep)

StepConc ==
    \E t \in Tasks :
        \/ ConcStart(t)
        \/ ConcLookup(t)
        \/ ConcDelete(t)
        \/ \E src \in {"yt-dlp", "none"} : ConcResolve(t, src)
        \/ ConcStore(t)
        \/ ConcRespond(t)
        \/ ConcBody(t)

NextConc == ArriveConc \/ StepConc \/ TickConc

SpecConc == InitConc /\ [][NextConc]_vars

\* C26: with /stream and /preview requests for one video in flight together,
\* no request touches audio_url_cache between another request's lookup and
\* its store; the del of an expired entry never meets a missing key (no
\* request is answered 500), and the entry it removes is the expired entry
\* that the same request has just read, never a fresher one.
C26_CacheAccessAtomic ==
    \A t \in Tasks :
        /\ ~tasks.of[t].crossed
        /\ tasks.of[t].status # 500
        /\ tasks.of[t].removed # NoEntry =>
              /\ tasks.of[t].removed = tasks.of[t].cached
              /\ tasks.of[t].removed.ts < now - CACHE_EXPIRY
        /\ \A u \in Tasks : (Midway(tasks.of[t]) /\ Midway(tasks.of[u])) => u = t

\* C26 witness: while one stream request, which removed an expired entry and
\* stored a fresh one, is relaying its audio, a second stream request is
\* answered from that fresh entry.
C26_TwoStreamsInFlight ==
    \E t, u \in Tasks :
        /\ t # u
        /\ tasks.of[t].ep = "stream" /\ tasks.of[t].at = "body"
        /\ tasks.of[t].removed # NoEntry
        /\ tasks.of[u].ep = "stream" /\ tasks.of[u].at = "respond"
        /\ tasks.of[u].cached = audio_url_cache[TheVideo]
        /\ tasks.of[u].audio_url = tasks.of[t].audio_url

\* The ffmpeg processes that a step has started.
Started == SubSeq(ffruns', Len(ffruns) + 1, Len(ffruns'))

C28_NoFfmpegNoWork ==
    (req.ep \in {"download", "video"} /\ ~ffmpeg /\ pc # "idle") =>
        /\ pc = "done"
        /\ resp = Error(500, "ffmpeg not found. Server configuration error.", FALSE)
        /\ log = << >>
        /\ ffruns = << >>
        /\ tmp = "none"
        /\ loc = LocInit

\* C28 witness: a /download-video request answered 500 for lack of ffmpeg.
C28_VideoRefused ==
    /\ req.ep = "video" /\ ~ffmpeg /\ nreq = 1
    /\ pc = "done" /\ resp.status = 500
    /\ log = << >> /\ tmp = "none"

====
